---------------------------- MODULE Spec2Model ----------------------------
(***************************************************************************)
(* TallyBridge v1.3: the App component's session state (uploaded files,    *)
(* column mapping, built transactions, ledger overrides, wizard step,      *)
(* processing flag) and its handlers, with the pure functions they call    *)
(* (parseCSV, the mapping validation, parseFloatSafe, the transaction      *)
(* builder, suggestedLedgers, generateTallyXml).                           *)
(*                                                                         *)
(* A JavaScript string is a sequence of one-character strings, so that the *)
(* regular expressions and parseFloat are computed character by character. *)
(* A JavaScript number is an integer count of hundredths (Scale).          *)
(***************************************************************************)
EXTENDS Integers, Sequences, FiniteSets, TLC

VARIABLES
  step,            \* AppStep: "UPLOAD", "MAPPING", "REVIEW", "EXPORT"
  uploadedFiles,   \* sequence of FileData: [headers, rawData]
  mapping,         \* ColumnMapping: a function from the keys present to strings
  transactions,    \* sequence of MarketplaceTransaction
  isProcessing,    \* the spinner flag
  pendingUploads,  \* handleFileUpload calls suspended at `await file.text()`
  pendingSuggest,  \* startMapping calls suspended at `await identifyHeaders`
  ledgerOverrides, \* Record<string, string>: default ledger name to custom name
  pm,              \* how the last handler ended, when it was processMapping
  out              \* what the last handler read, installed or downloaded

vars == <<step, uploadedFiles, mapping, transactions, isProcessing,
          pendingUploads, pendingSuggest, ledgerOverrides, pm, out>>

-----------------------------------------------------------------------------
(* Bounds of the model *)

\* Files of a batch: held in uploadedFiles or still being read.
MaxFiles == 2

\* identifyHeaders calls in flight at once.
MaxSuggest == 1

-----------------------------------------------------------------------------
(* Values *)

\* Numbers are counted in units of 1/Scale: two decimal digits.
Scale == 100

\* JavaScript's undefined, where a string is expected: no string, since every
\* element of a string is one character.
Undefined == <<"undefined">>

EmptyStr == <<>>

\* !x for a string or undefined.
Falsy(x) == x = EmptyStr \/ x = Undefined

\* The keys of ColumnMapping, in declaration order.
Fields ==
  <<"date", "invoiceNo", "customerName", "state", "taxableValue", "igst",
    "cgst", "sgst", "totalAmount", "gstRate", "productName", "quantity">>

FieldSet == {Fields[i] : i \in 1..Len(Fields)}

REQUIRED_FIELDS ==
  {"date", "invoiceNo", "customerName", "taxableValue", "totalAmount",
   "gstRate", "productName", "quantity"}

NUMERIC_FIELDS ==
  {"taxableValue", "igst", "cgst", "sgst", "totalAmount", "gstRate", "quantity"}

DATE_FIELDS == {"date"}

\* useState's initial ledgerOverrides: {}.
NoOverrides == [name \in {} |-> EmptyStr]

\* No handler has finished, or one that leaves nothing to tell.
NoOutcome == [handler |-> "none"]

\* The mapping of useState's initial value and of clearMappings.
BlankMapping == [f \in FieldSet |-> EmptyStr]

\* mapping[key]: undefined for a key the object does not have.
MapGet(m, f) == IF f \in DOMAIN m THEN m[f] ELSE Undefined

\* Array.prototype.indexOf, 1-based; 0 stands for -1.
RECURSIVE IndexFrom(_, _, _)
IndexFrom(s, x, i) ==
  IF i > Len(s) THEN 0
  ELSE IF s[i] = x THEN i
  ELSE IndexFrom(s, x, i + 1)

IndexOf(s, x) == IndexFrom(s, x, 1)

\* row[idx]: undefined past the end of the row.
At(row, idx) == IF idx \in 1..Len(row) THEN row[idx] ELSE Undefined

\* The elements of a sequence.
Range(s) == {s[i] : i \in 1..Len(s)}

RECURSIVE Flatten(_)
Flatten(ss) == IF ss = <<>> THEN <<>> ELSE Head(ss) \o Flatten(Tail(ss))

-----------------------------------------------------------------------------
(* parseCSV *)

IsSpace(c) == c \in {" ", "\t", "\r"}

\* String.prototype.trim.
RECURSIVE TrimLeft(_)
TrimLeft(s) ==
  IF s # <<>> /\ IsSpace(s[1]) THEN TrimLeft(Tail(s)) ELSE s

RECURSIVE TrimRight(_)
TrimRight(s) ==
  IF s # <<>> /\ IsSpace(s[Len(s)]) THEN TrimRight(SubSeq(s, 1, Len(s) - 1)) ELSE s

Trim(s) == TrimRight(TrimLeft(s))

\* cell.replace(/^"|"$/g, ''): one leading and one trailing double quote.
StripQuotes(s) ==
  LET a == IF s # <<>> /\ s[1] = "\"" THEN Tail(s) ELSE s
  IN  IF a # <<>> /\ a[Len(a)] = "\"" THEN SubSeq(a, 1, Len(a) - 1) ELSE a

\* line.split(','): always at least one cell.
RECURSIVE SplitComma(_, _, _)
SplitComma(line, i, cur) ==
  IF i > Len(line) THEN <<cur>>
  ELSE IF line[i] = "," THEN <<cur>> \o SplitComma(line, i + 1, <<>>)
  ELSE SplitComma(line, i + 1, Append(cur, line[i]))

ParseLine(line) ==
  LET cells == SplitComma(line, 1, <<>>)
  IN  [i \in 1..Len(cells) |-> StripQuotes(Trim(cells[i]))]

\* parseCSV without its `.filter(cells => cells.length > 1)`.
parseCSVKeepingAll(lines) == [i \in 1..Len(lines) |-> ParseLine(lines[i])]

\* A text is given as its lines (csvText.split(/\r?\n/)).
parseCSV(lines) ==
  SelectSeq([i \in 1..Len(lines) |-> ParseLine(lines[i])],
            LAMBDA cells : Len(cells) > 1)

-----------------------------------------------------------------------------
(* parseFloat and parseFloatSafe *)

Digits == {"0", "1", "2", "3", "4", "5", "6", "7", "8", "9"}

DigitValue(c) ==
  CASE c = "0" -> 0 [] c = "1" -> 1 [] c = "2" -> 2 [] c = "3" -> 3
    [] c = "4" -> 4 [] c = "5" -> 5 [] c = "6" -> 6 [] c = "7" -> 7
    [] c = "8" -> 8 [] c = "9" -> 9

\* val.replace(/[^0-9.-]+/g, "")
StripNonNumeric(s) == SelectSeq(s, LAMBDA c : c \in Digits \cup {".", "-"})

\* The index after the run of digits that starts at i.
RECURSIVE DigitsEnd(_, _)
DigitsEnd(s, i) ==
  IF i <= Len(s) /\ s[i] \in Digits THEN DigitsEnd(s, i + 1) ELSE i

\* The value of the digits s[i..j-1].
RECURSIVE NatOf(_, _, _)
NatOf(s, i, j) ==
  IF j <= i THEN 0 ELSE NatOf(s, i, j - 1) * 10 + DigitValue(s[j - 1])

\* parseFloat on a string of digits, dots and minus signs: the longest prefix
\* [-] digits [. digits] or [-] . digits; NaN when it holds no digit. `end` is
\* the index after that prefix. Fraction digits after the second are below the
\* resolution of the model.
ParseFloat(s) ==
  LET neg == s # <<>> /\ s[1] = "-"
      i0 == IF neg THEN 2 ELSE 1
      i1 == DigitsEnd(s, i0)
      hasDot == i1 <= Len(s) /\ s[i1] = "."
      f1 == IF hasDot THEN DigitsEnd(s, i1 + 1) ELSE i1
      nFrac == IF hasDot THEN f1 - (i1 + 1) ELSE 0
      tenths == IF nFrac >= 1 THEN DigitValue(s[i1 + 1]) ELSE 0
      hundredths == IF nFrac >= 2 THEN DigitValue(s[i1 + 2]) ELSE 0
      mag == NatOf(s, i0, i1) * Scale + tenths * 10 + hundredths
  IN  IF i1 = i0 /\ nFrac = 0
      THEN [nan |-> TRUE, v |-> 0, end |-> 1]
      ELSE [nan |-> FALSE, v |-> IF neg THEN 0 - mag ELSE mag, end |-> f1]

\* parseFloat(val.replace(...)) || 0. Called on undefined it throws (Throws).
parseFloatSafe(val) ==
  LET r == ParseFloat(StripNonNumeric(val))
  IN  IF r.nan \/ r.v = 0 THEN 0 ELSE r.v


-----------------------------------------------------------------------------
(* validationResults *)

\* key.replace(/([A-Z])/g, ' $1'): the field name as the message shows it.
Humanize(k) ==
  CASE k = "invoiceNo" -> "invoice No"
    [] k = "customerName" -> "customer Name"
    [] k = "taxableValue" -> "taxable Value"
    [] k = "totalAmount" -> "total Amount"
    [] k = "gstRate" -> "gst Rate"
    [] k = "productName" -> "product Name"
    [] OTHER -> k

\* Object.keys(mapping): the keys present (taken in declaration order).
Keys(m) == SelectSeq(Fields, LAMBDA k : k \in DOMAIN m)

\* RequiredMissing with "quantity" left out of the required list.
RequiredMissingWithoutQuantity(m) ==
  {k \in DOMAIN m : k \in REQUIRED_FIELDS \ {"quantity"} /\ Falsy(m[k])}

\* The keys stopped by `REQUIRED_FIELDS.includes(key) && !header`.
RequiredMissing(m) == {k \in DOMAIN m : k \in REQUIRED_FIELDS /\ Falsy(m[k])}

\* The keys that reach `if (header)` with a non-empty header.
Mapped(m, k) == k \in DOMAIN m /\ ~Falsy(m[k])

\* usedHeaders.get(header): the keys pushed for that header, in key order.
usedHeaders(m, header) ==
  SelectSeq(Keys(m), LAMBDA k : Mapped(m, k) /\ m[k] = header)

\* getSampleData: the column of the first file that has the header, first
\* `count` rows, undefined cells dropped.
RECURSIVE getSampleData(_, _, _)
getSampleData(files, header, count) ==
  IF files = <<>> THEN <<>>
  ELSE LET file == Head(files)
           idx == IndexOf(file.headers, header)
           rows == SubSeq(file.rawData, 1,
                          IF Len(file.rawData) < count THEN Len(file.rawData) ELSE count)
       IN  IF idx # 0
           THEN SelectSeq([i \in 1..Len(rows) |-> At(rows[i], idx)],
                          LAMBDA val : val # Undefined)
           ELSE getSampleData(Tail(files), header, count)

\* !isNaN(parseFloat(num)) && isFinite(Number(num)), blank samples passing:
\* Number() accepts the string only when the whole of it is the number.
LooksNumeric(val) ==
  \/ Falsy(val)
  \/ LET num == StripNonNumeric(val)
         r == ParseFloat(num)
     IN  ~r.nan /\ r.end = Len(num) + 1

\* !isNaN(Date.parse(val)) for the date strings of the model: YYYY-MM-DD with a
\* month 01..12 and a day 01..28 parses, a string without digits does not.
DateParses(val) ==
  /\ Len(val) = 10
  /\ \A i \in {1, 2, 3, 4, 6, 7, 9, 10} : val[i] \in Digits
  /\ val[5] = "-" /\ val[8] = "-"
  /\ NatOf(val, 6, 8) \in 1..12
  /\ NatOf(val, 9, 11) \in 1..28

LooksDate(val) == Falsy(val) \/ DateParses(val)

\* Errors with the message's `keys.filter(k => k !== key)` left out.
ErrorsNamingSelf(m) ==
  LET dup == {k \in DOMAIN m : Mapped(m, k) /\ Len(usedHeaders(m, m[k])) > 1}
  IN  [k \in RequiredMissing(m) \cup dup |->
         IF k \in dup
         THEN LET keys == usedHeaders(m, m[k])
              IN  [kind |-> "duplicate", header |-> m[k],
                   others |-> [i \in 1..Len(keys) |-> Humanize(keys[i])]]
         ELSE [kind |-> "required", header |-> EmptyStr, others |-> <<>>]]

\* validationResults.errors: first the required-field entries, then the
\* duplicate-mapping entries of the usedHeaders pass.
Errors(m) ==
  LET dup == {k \in DOMAIN m : Mapped(m, k) /\ Len(usedHeaders(m, m[k])) > 1}
  IN  [k \in RequiredMissing(m) \cup dup |->
         IF k \in dup
         THEN LET keys == usedHeaders(m, m[k])
                  rest == SelectSeq(keys, LAMBDA o : o # k)
              IN  [kind |-> "duplicate", header |-> m[k],
                   others |-> [i \in 1..Len(rest) |-> Humanize(rest[i])]]
         ELSE [kind |-> "required", header |-> EmptyStr, others |-> <<>>]]

\* validationResults.warnings
Warnings(m, files) ==
  LET samples(k) == getSampleData(files, m[k], 3)
      badNumber(k) == /\ k \in NUMERIC_FIELDS /\ samples(k) # <<>>
                      /\ \E i \in 1..Len(samples(k)) : ~LooksNumeric(samples(k)[i])
      badDate(k) == /\ k \in DATE_FIELDS /\ samples(k) # <<>>
                    /\ \E i \in 1..Len(samples(k)) : ~LooksDate(samples(k)[i])
  IN  [k \in {f \in DOMAIN m : Mapped(m, f) /\ (badNumber(f) \/ badDate(f))} |->
         IF badDate(k) THEN "date" ELSE "number"]

\* Object.keys(validationResults.errors).length > 0
hasCriticalErrors(m) == DOMAIN Errors(m) # {}

\* allHeaders: the union of the files' headers.
allHeaders(files) == UNION {Range(files[i].headers) : i \in 1..Len(files)}

-----------------------------------------------------------------------------
(* processMapping: one row *)

GeneralItem ==
  <<"G", "e", "n", "e", "r", "a", "l", " ", "I", "t", "e", "m">>

\* getVal: the row's cell under the field's header.
getVal(m, file, row, field) ==
  LET header == MapGet(m, field)
      idx == IndexOf(file.headers, header)
  IN  IF idx # 0 THEN At(row, idx) ELSE EmptyStr

\* parseFloatSafe(undefined): val.replace is a TypeError.
RowThrows(m, file, row) ==
  \E f \in NUMERIC_FIELDS : getVal(m, file, row, f) = Undefined

\* OrOne without the `|| 1`.
OrOneForgotten(x) == x

\* OrOne defaulting every non-positive quantity.
OrOneNonPositive(x) == IF x <= 0 THEN Scale ELSE x

\* x || 1
OrOne(x) == IF x = 0 THEN Scale ELSE x

BuildRow(m, file, row) ==
  [date |-> getVal(m, file, row, "date"),
   invoiceNo |-> getVal(m, file, row, "invoiceNo"),
   customerName |-> getVal(m, file, row, "customerName"),
   state |-> getVal(m, file, row, "state"),
   taxableValue |-> parseFloatSafe(getVal(m, file, row, "taxableValue")),
   igst |-> parseFloatSafe(getVal(m, file, row, "igst")),
   cgst |-> parseFloatSafe(getVal(m, file, row, "cgst")),
   sgst |-> parseFloatSafe(getVal(m, file, row, "sgst")),
   totalAmount |-> parseFloatSafe(getVal(m, file, row, "totalAmount")),
   gstRate |-> parseFloatSafe(getVal(m, file, row, "gstRate")),
   productName |-> IF Falsy(getVal(m, file, row, "productName"))
                   THEN GeneralItem
                   ELSE getVal(m, file, row, "productName"),
   quantity |-> OrOne(parseFloatSafe(getVal(m, file, row, "quantity")))]

\* file.rawData.map(row => ...)
BuildFile(m, file) ==
  [i \in 1..Len(file.rawData) |-> BuildRow(m, file, file.rawData[i])]

\* Some row of some file throws, and with it the handler.
BuildThrows(m, files) ==
  \E i \in 1..Len(files) : \E j \in 1..Len(files[i].rawData) :
    RowThrows(m, files[i], files[i].rawData[j])

\* BuildAll with `[...fileTransactions, ...allProcessed]`.
BuildAllPrepending(m, files) ==
  Flatten([i \in 1..Len(files) |-> BuildFile(m, files[Len(files) + 1 - i])])

\* allProcessed after uploadedFiles.forEach.
BuildAll(m, files) ==
  Flatten([i \in 1..Len(files) |-> BuildFile(m, files[i])])

-----------------------------------------------------------------------------
(* suggestedLedgers *)

\* A ledger name `<prefix> @ <number>%`. The number is kept in units of
\* 1/(2 * Scale), in which rate / 2 is exact; two names are the same string
\* exactly when prefix and number agree.
LedgerName(prefix, doubled) == [prefix |-> prefix, number |-> doubled]

\* SortAscending with the comparator turned round, (a, b) => b - a.
RECURSIVE SortDescending(_)
SortDescending(S) ==
  IF S = {} THEN <<>>
  ELSE LET max == CHOOSE x \in S : \A y \in S : x >= y
       IN  <<max>> \o SortDescending(S \ {max})

\* Array.from(rates).sort((a, b) => a - b)
RECURSIVE SortAscending(_)
SortAscending(S) ==
  IF S = {} THEN <<>>
  ELSE LET min == CHOOSE x \in S : \A y \in S : x <= y
       IN  <<min>> \o SortAscending(S \ {min})

\* What the loop body pushes for one rate.
LedgersOfRate(rate, hasIgst, hasCgstSgst) ==
  <<[name |-> LedgerName("Sales", 2 * rate), type |-> "Sales Ledger", rate |-> rate]>>
  \o (IF hasIgst
      THEN <<[name |-> LedgerName("Output IGST", 2 * rate), type |-> "Tax Ledger",
              rate |-> rate]>>
      ELSE <<>>)
  \o (IF hasCgstSgst
      THEN <<[name |-> LedgerName("Output CGST", rate), type |-> "Tax Ledger",
              rate |-> rate],
             [name |-> LedgerName("Output SGST", rate), type |-> "Tax Ledger",
              rate |-> rate]>>
      ELSE <<>>)

suggestedLedgers(txs) ==
  LET hasIgst == \E i \in 1..Len(txs) : txs[i].igst > 0
      hasCgstSgst == \E i \in 1..Len(txs) : txs[i].cgst > 0 \/ txs[i].sgst > 0
      rates == {txs[i].gstRate : i \in {j \in 1..Len(txs) : txs[j].gstRate > 0}}
      sorted == SortAscending(rates)
  IN  Flatten([i \in 1..Len(sorted) |-> LedgersOfRate(sorted[i], hasIgst, hasCgstSgst)])

-----------------------------------------------------------------------------
(* generateTallyXml *)

\* The text of a string literal of the source.
Cash == <<"C", "a", "s", "h">>

Maharashtra == <<"M", "a", "h", "a", "r", "a", "s", "h", "t", "r", "a">>

Nos == <<" ", "N", "o", "s">>

FallbackDate == <<"2", "0", "2", "4", "0", "4", "0", "1">>

\* The replacement that sanitize's callback returns for one character.
Entity(c) ==
  CASE c = "<" -> <<"&", "l", "t", ";">>
    [] c = ">" -> <<"&", "g", "t", ";">>
    [] c = "&" -> <<"&", "a", "m", "p", ";">>
    [] c = "'" -> <<"&", "a", "p", "o", "s", ";">>
    [] c = "\"" -> <<"&", "q", "u", "o", "t", ";">>
    [] OTHER -> <<c>>

\* sanitize with the apostrophe left out of its character class.
sanitizeKeepingApostrophe(str) ==
  IF Falsy(str) THEN EmptyStr
  ELSE Flatten([i \in 1..Len(str) |-> IF str[i] = "'" THEN <<"'">> ELSE Entity(str[i])])

\* sanitize: "" for an empty or undefined string, else every character
\* replaced by its Entity.
sanitize(str) ==
  IF Falsy(str) THEN EmptyStr
  ELSE Flatten([i \in 1..Len(str) |-> Entity(str[i])])

\* a || b for strings.
OrElse(a, b) == IF Falsy(a) THEN b ELSE a

DigitChar(d) == <<"0", "1", "2", "3", "4", "5", "6", "7", "8", "9">>[d + 1]

\* String(n) for an integer n >= 0.
RECURSIVE NatToString(_)
NatToString(n) ==
  IF n < 10 THEN <<DigitChar(n)>>
  ELSE Append(NatToString(n \div 10), DigitChar(n % 10))

\* String(n).padStart(2, '0')
PadStart2(n) == IF n < 10 THEN <<"0">> \o NatToString(n) ELSE NatToString(n)

Abs(x) == IF x < 0 THEN 0 - x ELSE x

\* (num / den).toFixed(2) for integers num and den # 0: the sign of the
\* quotient, then its magnitude rounded to hundredths, a tie away from zero.
toFixed2(num, den) ==
  LET neg == (num < 0 /\ den > 0) \/ (num > 0 /\ den < 0)
      hundredths == (2 * 100 * Abs(num) + Abs(den)) \div (2 * Abs(den))
  IN  (IF neg THEN <<"-">> ELSE <<>>)
      \o NatToString(hundredths \div 100)
      \o <<".">> \o <<DigitChar((hundredths \div 10) % 10), DigitChar(hundredths % 10)>>

\* `${n / den}` for a number with at most three decimals: the shortest
\* decimal, without trailing zeros.
NumberToString(n, den) ==
  LET thousandths == (Abs(n) * 1000) \div den
      frac == thousandths % 1000
      decimals ==
        IF frac = 0 THEN <<>>
        ELSE IF frac % 100 = 0 THEN <<".", DigitChar(frac \div 100)>>
        ELSE IF frac % 10 = 0
             THEN <<".", DigitChar(frac \div 100), DigitChar((frac \div 10) % 10)>>
        ELSE <<".", DigitChar(frac \div 100), DigitChar((frac \div 10) % 10),
               DigitChar(frac % 10)>>
  IN  (IF n < 0 THEN <<"-">> ELSE <<>>) \o NatToString(thousandths \div 1000) \o decimals

PrefixText(prefix) ==
  CASE prefix = "Sales" -> <<"S", "a", "l", "e", "s">>
    [] prefix = "Output IGST" -> <<"O", "u", "t", "p", "u", "t", " ", "I", "G", "S", "T">>
    [] prefix = "Output CGST" -> <<"O", "u", "t", "p", "u", "t", " ", "C", "G", "S", "T">>
    [] prefix = "Output SGST" -> <<"O", "u", "t", "p", "u", "t", " ", "S", "G", "S", "T">>

\* The characters of the template string `<prefix> @ ${number}%`.
LedgerText(name) ==
  PrefixText(name.prefix) \o <<" ", "@", " ">>
    \o NumberToString(name.number, 2 * Scale) \o <<"%">>

\* formatDateForTally: new Date(dateStr) reads a date-only ISO string as UTC
\* midnight and the getters give the local calendar day, which is the same
\* day in a time zone at or ahead of UTC (as India's). The year is not padded.
formatDateForTally(dateStr) ==
  IF dateStr = Undefined \/ ~DateParses(dateStr) THEN FallbackDate
  ELSE NatToString(NatOf(dateStr, 1, 5))
         \o PadStart2(NatOf(dateStr, 6, 8)) \o PadStart2(NatOf(dateStr, 9, 11))

\* ledgerOverrides[defaultName]
OverrideOf(overrides, defaultName) ==
  IF defaultName \in DOMAIN overrides THEN overrides[defaultName] ELSE Undefined

\* getLedgerName without the `customName.trim() !== ""` test.
getLedgerNameUntrimmed(overrides, defaultName) ==
  LET customName == OverrideOf(overrides, defaultName)
  IN  sanitize(IF ~Falsy(customName) THEN customName ELSE LedgerText(defaultName))

getLedgerName(overrides, defaultName) ==
  LET customName == OverrideOf(overrides, defaultName)
  IN  sanitize(IF ~Falsy(customName) /\ Trim(customName) # EmptyStr
               THEN customName
               ELSE LedgerText(defaultName))

\* tx.gstRate || 18
RateOrDefault(gstRate) == IF gstRate = 0 THEN 18 * Scale ELSE gstRate

\* One ALLLEDGERENTRIES.LIST element.
LedgerEntry(ledger, positive, amount, inventory) ==
  [LEDGERNAME |-> ledger, ISDEEMEDPOSITIVE |-> positive, AMOUNT |-> amount,
   INVENTORYENTRIES |-> inventory]

\* The entries appended by `if (tx.igst > 0)` and `if (tx.cgst > 0)`.
TaxEntries(tx, overrides) ==
  LET rate == RateOrDefault(tx.gstRate)
  IN  (IF tx.igst > 0
       THEN <<LedgerEntry(getLedgerName(overrides, LedgerName("Output IGST", 2 * rate)),
                          "No", toFixed2(tx.igst, Scale), <<>>)>>
       ELSE <<>>)
      \o (IF tx.cgst > 0
          THEN <<LedgerEntry(getLedgerName(overrides, LedgerName("Output CGST", rate)),
                             "No", toFixed2(tx.cgst, Scale), <<>>),
                 LedgerEntry(getLedgerName(overrides, LedgerName("Output SGST", rate)),
                             "No", toFixed2(tx.sgst, Scale), <<>>)>>
          ELSE <<>>)

\* The VOUCHER element of one transaction: the content of its child elements.
Voucher(tx, overrides) ==
  LET partyName == sanitize(OrElse(tx.customerName, Cash))
      qty == OrOne(tx.quantity)
      taxableVal == toFixed2(tx.taxableValue, Scale)
      rate == RateOrDefault(tx.gstRate)
  IN  [DATE |-> formatDateForTally(tx.date),
       REFERENCE |-> sanitize(tx.invoiceNo),
       PARTYLEDGERNAME |-> partyName,
       STATENAME |-> sanitize(OrElse(tx.state, Maharashtra)),
       ENTRIES |->
         <<LedgerEntry(partyName, "Yes",
                       <<"-">> \o toFixed2(tx.totalAmount, Scale), <<>>),
           LedgerEntry(getLedgerName(overrides, LedgerName("Sales", 2 * rate)), "No",
                       taxableVal,
                       <<[STOCKITEMNAME |-> sanitize(OrElse(tx.productName, GeneralItem)),
                          RATE |-> toFixed2(tx.taxableValue, qty),
                          AMOUNT |-> taxableVal,
                          ACTUALQTY |-> NumberToString(qty, Scale) \o Nos,
                          BILLEDQTY |-> NumberToString(qty, Scale) \o Nos]>>)>>
         \o TaxEntries(tx, overrides)]

\* generateTallyXml walking the transactions from the last to the first.
generateTallyXmlReversed(txs, overrides) ==
  [ENVELOPE |-> [i \in 1..Len(txs) |-> Voucher(txs[Len(txs) + 1 - i], overrides)]]

\* The document: the ENVELOPE and, in REQUESTDATA, one TALLYMESSAGE with one
\* VOUCHER for each element of transactions.forEach.
generateTallyXml(txs, overrides) ==
  [ENVELOPE |-> [i \in 1..Len(txs) |-> Voucher(txs[i], overrides)]]

-----------------------------------------------------------------------------
(* The inputs of the model: file texts, header suggestions, user edits *)

\* cells.join(','): how a report line is written.
RECURSIVE JoinComma(_)
JoinComma(cells) ==
  IF Len(cells) = 1 THEN cells[1]
  ELSE cells[1] \o <<",">> \o JoinComma(Tail(cells))

\* A sales report: ten columns and two rows as wide as the header row. The
\* second row has a date that is no date, a currency sign, a blank customer,
\* a zero quantity, a blank product and a CGST amount.
TextFull ==
  <<JoinComma(<< <<"D">>, <<"N">>, <<"C">>, <<"V">>, <<"I">>, <<"R">>, <<"Q">>,
                 <<"P">>, <<"A">>, <<"G">> >>),
    JoinComma(<< <<"2", "0", "2", "4", "-", "0", "4", "-", "1", "5">>,
                 <<"i", "1">>, <<" ", "\"", "A", "l", "\"">>,
                 <<"1", "0", "0", "0">>, <<"1", "8", "0">>, <<"1", "8">>, <<"2">>,
                 <<"W">>, <<"1", "1", "8", "0">>, <<>> >>),
    JoinComma(<< <<"x">>, <<"i", "2">>, <<>>, <<"$", "5", "0", "0">>, <<"0">>,
                 <<"5">>, <<"0">>, <<>>, <<"5", "2", "5">>,
                 <<"1", "2", ".", "5">> >>),
    <<>> >>

\* A report with a header line only, then a one-cell line and a blank line.
TextHeaderOnly ==
  <<JoinComma(<< <<"D">>, <<"N">>, <<"C">> >>), <<"T", "o", "t", "a", "l">>, <<>> >>

\* A report whose second column has an empty header; a negative quantity, a
\* quantity and a rate that are no numbers, a negative rate.
TextEmptyHeader ==
  <<JoinComma(<< <<"Q">>, <<>>, <<"R">> >>),
    JoinComma(<< <<"-", "2">>, <<"5">>, <<"x">> >>),
    JoinComma(<< <<"n", "a">>, <<"0">>, <<"-", "5">> >>) >>

\* A report with a row shorter than its header row.
TextShortRow ==
  <<JoinComma(<< <<"R">>, <<"Q">>, <<"V">> >>),
    JoinComma(<< <<"1", "8">>, <<"3">> >>) >>

\* A text without a comma: no usable line.
TextNoLines == << <<"j", "u", "n", "k">>, <<>> >>

\* The reports the user picks from in the whole wizard.
TextPool == {TextFull, TextHeaderOnly, TextEmptyHeader, TextShortRow}

\* A complete suggestion for the columns of TextFull.
SuggestComplete ==
  [f \in FieldSet |->
     CASE f = "date" -> <<"D">> [] f = "invoiceNo" -> <<"N">>
       [] f = "customerName" -> <<"C">> [] f = "taxableValue" -> <<"V">>
       [] f = "igst" -> <<"I">> [] f = "cgst" -> <<"G">>
       [] f = "totalAmount" -> <<"A">> [] f = "gstRate" -> <<"R">>
       [] f = "productName" -> <<"P">> [] f = "quantity" -> <<"Q">>
       [] OTHER -> EmptyStr]

\* JSON that leaves fields out: the response schema requires none of them.
SuggestPartial ==
  [f \in FieldSet \ {"quantity", "state"} |-> SuggestComplete[f]]

\* A suggestion that gives one column to three fields.
SuggestAmbiguous ==
  [SuggestComplete EXCEPT !["cgst"] = <<"I">>, !["sgst"] = <<"I">>]

\* What JSON.parse(response.text) may be.
SuggestionPool == {SuggestComplete, SuggestPartial, SuggestAmbiguous}

\* The select the user changes in the whole wizard, and the column chosen
\* there (or none).
EditFields == {"quantity"}

EditHeaders == {<<"Q">>}

\* The ledger card the user retypes in the model, and the name typed there.
EditLedgers == {LedgerName("Sales", 2 * 18 * Scale)}

EditNames == {<<"M", "y", " ", "S", "&", "S">>}

-----------------------------------------------------------------------------
(* The state machine *)

Init ==
  /\ step = "UPLOAD"
  /\ uploadedFiles = <<>>
  /\ mapping = BlankMapping
  /\ transactions = <<>>
  /\ isProcessing = FALSE
  /\ pendingUploads = <<>>
  /\ pendingSuggest = 0
  /\ ledgerOverrides = NoOverrides
  /\ pm = "none"
  /\ out = NoOutcome

\* NewFiles without the `if (data.length > 0)` round the push: a text without
\* a usable line gives a Source without headers and rows.
NewFilesKeepingEmpty(texts) ==
  LET parsed == [i \in 1..Len(texts) |-> parseCSV(texts[i])]
  IN  [i \in 1..Len(parsed) |->
         IF parsed[i] = <<>> THEN [headers |-> <<>>, rawData |-> <<>>]
         ELSE [headers |-> parsed[i][1], rawData |-> Tail(parsed[i])]]

\* newFiles of a handleFileUpload call whose files have all been read.
NewFiles(texts) ==
  LET parsed == [i \in 1..Len(texts) |-> parseCSV(texts[i])]
      kept == SelectSeq(parsed, LAMBDA data : Len(data) > 0)
  IN  [i \in 1..Len(kept) |-> [headers |-> kept[i][1], rawData |-> Tail(kept[i])]]

\* handleFileUpload up to its first await: the user picks one file, and picks
\* no report a second time while the batch holds it.
HandleFileUpload(text) ==
  /\ step = "UPLOAD"
  /\ Len(uploadedFiles) + Len(pendingUploads) < MaxFiles
  /\ <<text>> \notin Range(pendingUploads)
  /\ \A i \in 1..Len(uploadedFiles) : <<uploadedFiles[i]>> # NewFiles(<<text>>)
  /\ isProcessing' = TRUE
  /\ pendingUploads' = Append(pendingUploads, <<text>>)
  /\ pm' = "none"
  /\ out' = NoOutcome
  /\ UNCHANGED ledgerOverrides
  /\ UNCHANGED <<step, uploadedFiles, mapping, transactions, pendingSuggest>>

\* handleFileUpload after its last await.
HandleFileUploadDone(i) ==
  /\ i \in 1..Len(pendingUploads)
  /\ uploadedFiles' = uploadedFiles \o NewFiles(pendingUploads[i])
  /\ isProcessing' = FALSE
  /\ pendingUploads' =
       SubSeq(pendingUploads, 1, i - 1) \o SubSeq(pendingUploads, i + 1, Len(pendingUploads))
  /\ pm' = "none"
  /\ out' = [handler |-> "handleFileUpload", texts |-> pendingUploads[i],
             before |-> Len(uploadedFiles)]
  /\ UNCHANGED ledgerOverrides
  /\ UNCHANGED <<step, mapping, transactions, pendingSuggest>>

removeFile(index) ==
  /\ step = "UPLOAD"
  /\ index \in 1..Len(uploadedFiles)
  /\ uploadedFiles' =
       SubSeq(uploadedFiles, 1, index - 1)
         \o SubSeq(uploadedFiles, index + 1, Len(uploadedFiles))
  /\ pm' = "none"
  /\ out' = NoOutcome
  /\ UNCHANGED ledgerOverrides
  /\ UNCHANGED <<step, mapping, transactions, isProcessing, pendingUploads,
                 pendingSuggest>>

\* The Clear All button of the upload screen.
ClearAllFiles ==
  /\ step = "UPLOAD"
  /\ Len(uploadedFiles) > 0
  /\ uploadedFiles' = <<>>
  /\ pm' = "none"
  /\ out' = NoOutcome
  /\ UNCHANGED ledgerOverrides
  /\ UNCHANGED <<step, mapping, transactions, isProcessing, pendingUploads,
                 pendingSuggest>>

\* startMapping up to its await; the button is disabled while isProcessing.
startMapping ==
  /\ step = "UPLOAD"
  /\ Len(uploadedFiles) > 0
  /\ ~isProcessing
  /\ pendingSuggest < MaxSuggest
  /\ isProcessing' = TRUE
  /\ pendingSuggest' = pendingSuggest + 1
  /\ pm' = "none"
  /\ out' = NoOutcome
  /\ UNCHANGED ledgerOverrides
  /\ UNCHANGED <<step, uploadedFiles, mapping, transactions, pendingUploads>>

\* identifyHeaders resolves with the parsed JSON.
SuggestionArrives(aiMapping) ==
  /\ pendingSuggest > 0
  /\ pendingSuggest' = pendingSuggest - 1
  /\ mapping' = aiMapping
  /\ step' = "MAPPING"
  /\ isProcessing' = FALSE
  /\ pm' = "none"
  /\ out' = [handler |-> "startMapping", how |-> "resolved"]
  /\ UNCHANGED ledgerOverrides
  /\ UNCHANGED <<uploadedFiles, transactions, pendingUploads>>

\* identifyHeaders catches the failure of the call and resolves with its
\* fallback mapping.
SuggestionFallback ==
  /\ pendingSuggest > 0
  /\ pendingSuggest' = pendingSuggest - 1
  /\ mapping' = BlankMapping
  /\ step' = "MAPPING"
  /\ isProcessing' = FALSE
  /\ pm' = "none"
  /\ out' = [handler |-> "startMapping", how |-> "fallback"]
  /\ UNCHANGED ledgerOverrides
  /\ UNCHANGED <<uploadedFiles, transactions, pendingUploads>>

\* identifyHeaders rejects (the client is constructed outside its try):
\* startMapping's catch.
SuggestionRejects ==
  /\ pendingSuggest > 0
  /\ pendingSuggest' = pendingSuggest - 1
  /\ step' = "MAPPING"
  /\ isProcessing' = FALSE
  /\ pm' = "none"
  /\ out' = [handler |-> "startMapping", how |-> "rejected"]
  /\ UNCHANGED ledgerOverrides
  /\ UNCHANGED <<uploadedFiles, mapping, transactions, pendingUploads>>

\* A select of the mapping screen: one is rendered per key of mapping, its
\* options "" and allHeaders.
SetMappingField(key, header) ==
  /\ step = "MAPPING"
  /\ key \in DOMAIN mapping
  /\ header \in allHeaders(uploadedFiles) \cup {EmptyStr}
  /\ mapping' = [mapping EXCEPT ![key] = header]
  /\ pm' = "none"
  /\ out' = NoOutcome
  /\ UNCHANGED ledgerOverrides
  /\ UNCHANGED <<step, uploadedFiles, transactions, isProcessing, pendingUploads,
                 pendingSuggest>>

clearMappings ==
  /\ step = "MAPPING"
  /\ mapping' = BlankMapping
  /\ pm' = "none"
  /\ out' = NoOutcome
  /\ UNCHANGED ledgerOverrides
  /\ UNCHANGED <<step, uploadedFiles, transactions, isProcessing, pendingUploads,
                 pendingSuggest>>

BackToUpload ==
  /\ step = "MAPPING"
  /\ step' = "UPLOAD"
  /\ pm' = "none"
  /\ out' = NoOutcome
  /\ UNCHANGED ledgerOverrides
  /\ UNCHANGED <<uploadedFiles, mapping, transactions, isProcessing, pendingUploads,
                 pendingSuggest>>

\* processMapping returning at `if (hasCriticalErrors) return;`: the function's
\* own guard, which the Verify Batch button repeats in its disabled attribute.
ProcessMappingReturns ==
  /\ step = "MAPPING"
  /\ hasCriticalErrors(mapping)
  /\ pm' = "returned"
  /\ out' = NoOutcome
  /\ UNCHANGED ledgerOverrides
  /\ UNCHANGED <<step, uploadedFiles, mapping, transactions, isProcessing,
                 pendingUploads, pendingSuggest>>

\* ProcessMappingBuilds starting the ledger cards afresh.
ProcessMappingBuildsResetting ==
  /\ step = "MAPPING"
  /\ ~isProcessing
  /\ ~hasCriticalErrors(mapping)
  /\ ~BuildThrows(mapping, uploadedFiles)
  /\ transactions' = BuildAll(mapping, uploadedFiles)
  /\ isProcessing' = FALSE
  /\ step' = "REVIEW"
  /\ pm' = "built"
  /\ out' = NoOutcome
  /\ ledgerOverrides' = NoOverrides
  /\ UNCHANGED <<uploadedFiles, mapping, pendingUploads, pendingSuggest>>

\* processMapping running to its end; the Verify Batch button is disabled
\* while isProcessing.
ProcessMappingBuilds ==
  /\ step = "MAPPING"
  /\ ~isProcessing
  /\ ~hasCriticalErrors(mapping)
  /\ ~BuildThrows(mapping, uploadedFiles)
  /\ transactions' = BuildAll(mapping, uploadedFiles)
  /\ isProcessing' = FALSE
  /\ step' = "REVIEW"
  /\ pm' = "built"
  /\ out' = NoOutcome
  /\ UNCHANGED ledgerOverrides
  /\ UNCHANGED <<uploadedFiles, mapping, pendingUploads, pendingSuggest>>

\* processMapping leaving by the TypeError of parseFloatSafe(undefined), after
\* setIsProcessing(true) and before setTransactions.
ProcessMappingThrows ==
  /\ step = "MAPPING"
  /\ ~isProcessing
  /\ ~hasCriticalErrors(mapping)
  /\ BuildThrows(mapping, uploadedFiles)
  /\ isProcessing' = TRUE
  /\ pm' = "threw"
  /\ out' = NoOutcome
  /\ UNCHANGED ledgerOverrides
  /\ UNCHANGED <<step, uploadedFiles, mapping, transactions, pendingUploads,
                 pendingSuggest>>

processMapping ==
  \/ ProcessMappingReturns
  \/ ProcessMappingBuilds
  \/ ProcessMappingThrows

\* The Edit Mapping button of the review screen.
EditMapping ==
  /\ step = "REVIEW"
  /\ step' = "MAPPING"
  /\ pm' = "none"
  /\ out' = NoOutcome
  /\ UNCHANGED ledgerOverrides
  /\ UNCHANGED <<uploadedFiles, mapping, transactions, isProcessing, pendingUploads,
                 pendingSuggest>>

\* The input of a ledger card on the review screen: one card per suggested
\* ledger, its onChange giving the whole new text of the input.
handleLedgerOverride(defaultName, customName) ==
  /\ step = "REVIEW"
  /\ defaultName \in {suggestedLedgers(transactions)[i].name :
                         i \in 1..Len(suggestedLedgers(transactions))}
  /\ ledgerOverrides' =
       [name \in DOMAIN ledgerOverrides \cup {defaultName} |->
          IF name = defaultName THEN customName ELSE ledgerOverrides[name]]
  /\ pm' = "none"
  /\ out' = NoOutcome
  /\ UNCHANGED <<step, uploadedFiles, mapping, transactions, isProcessing,
                 pendingUploads, pendingSuggest>>

\* The Export Unified XML button: handleDownload, then the export screen.
ExportXml ==
  /\ step = "REVIEW"
  /\ step' = "EXPORT"
  /\ pm' = "none"
  /\ out' = [handler |-> "handleDownload",
             xml |-> generateTallyXml(transactions, ledgerOverrides)]
  /\ UNCHANGED ledgerOverrides
  /\ UNCHANGED <<uploadedFiles, mapping, transactions, isProcessing, pendingUploads,
                 pendingSuggest>>

\* The Start New Batch button of the export screen.
StartNewBatch ==
  /\ step = "EXPORT"
  /\ uploadedFiles' = <<>>
  /\ transactions' = <<>>
  /\ step' = "UPLOAD"
  /\ pm' = "none"
  /\ out' = NoOutcome
  /\ ledgerOverrides' = NoOverrides
  /\ UNCHANGED <<mapping, isProcessing, pendingUploads, pendingSuggest>>

Next ==
  \/ \E text \in TextPool : HandleFileUpload(text)
  \/ \E i \in 1..MaxFiles : HandleFileUploadDone(i)
  \/ \E index \in 1..MaxFiles : removeFile(index)
  \/ ClearAllFiles
  \/ startMapping
  \/ \E aiMapping \in SuggestionPool : SuggestionArrives(aiMapping)
  \/ SuggestionFallback
  \/ SuggestionRejects
  \/ \E key \in EditFields : \E header \in EditHeaders \cup {EmptyStr} :
       SetMappingField(key, header)
  \/ clearMappings
  \/ BackToUpload
  \/ processMapping
  \/ EditMapping
  \/ \E defaultName \in EditLedgers : \E customName \in EditNames :
       handleLedgerOverride(defaultName, customName)
  \/ ExportXml
  \/ StartNewBatch

Spec == Init /\ [][Next]_vars

-----------------------------------------------------------------------------
(* The mapping screen alone: every mapping the selects of seven fields reach *)

\* The selects changed on the mapping screen: required and optional fields,
\* text, date and number.
ValidationFields ==
  {"date", "customerName", "gstRate", "quantity", "state", "igst", "sgst"}

\* The columns chosen there.
ValidationHeaders == {<<"Q">>, <<"I">>}

\* The mapping screen after a complete suggestion for one uploaded report.
InitValidation ==
  /\ step = "MAPPING"
  /\ uploadedFiles = NewFiles(<<TextFull>>)
  /\ mapping = SuggestComplete
  /\ transactions = <<>>
  /\ isProcessing = FALSE
  /\ pendingUploads = <<>>
  /\ pendingSuggest = 0
  /\ ledgerOverrides = NoOverrides
  /\ pm = "none"
  /\ out = NoOutcome

NextValidation ==
  \/ \E key \in ValidationFields : \E header \in ValidationHeaders \cup {EmptyStr} :
       SetMappingField(key, header)
  \/ clearMappings

SpecValidation == InitValidation /\ [][NextValidation]_vars

-----------------------------------------------------------------------------
(* The review screen alone: batches built from reports of every tax shape *)

\* A complete suggestion for a report with an SGST column.
SuggestWithSgst == [SuggestComplete EXCEPT !["sgst"] = <<"H">>]

\* Rate cells below, at and above 0, one of them a fraction.
RateCells ==
  {<<"-", "5">>, <<"0">>, <<"0", ".", "2", "5">>, <<"5">>, <<"1", "8">>}

\* A report of rate, IGST, CGST and SGST columns and up to two rows, each tax
\* amount blank or present.
TaxReports ==
  LET rows == {<<rate, igst, cgst, sgst>> :
                 rate \in RateCells, igst \in {<<>>, <<"1", "8", "0">>},
                 cgst \in {<<"0">>, <<"9", "0">>}, sgst \in {<<>>, <<"9", "0">>}}
  IN  {[headers |-> << <<"R">>, <<"I">>, <<"G">>, <<"H">> >>, rawData |-> rawData] :
         rawData \in {<<>>} \cup {<<r>> : r \in rows}
                       \cup {<<r, q>> : r \in rows, q \in rows}}

\* The review screen that processMapping has just opened on such a report.
InitReview ==
  /\ step = "REVIEW"
  /\ uploadedFiles \in {<<file>> : file \in TaxReports}
  /\ mapping = SuggestWithSgst
  /\ transactions = BuildAll(mapping, uploadedFiles)
  /\ isProcessing = FALSE
  /\ pendingUploads = <<>>
  /\ pendingSuggest = 0
  /\ ledgerOverrides = NoOverrides
  /\ pm = "built"
  /\ out = NoOutcome

NextReview ==
  \/ ExportXml
  \/ StartNewBatch

SpecReview == InitReview /\ [][NextReview]_vars

-----------------------------------------------------------------------------
(* The review screen and the export: batches of every shape of voucher *)

\* The header row of a report with a column for each of the twelve fields.
ExportHeaders ==
  << <<"D">>, <<"N">>, <<"C">>, <<"S">>, <<"V">>, <<"I">>, <<"G">>, <<"H">>,
     <<"A">>, <<"R">>, <<"P">>, <<"Q">> >>

\* The suggestion that maps each field to its column.
SuggestExport ==
  [f \in FieldSet |->
     CASE f = "date" -> <<"D">> [] f = "invoiceNo" -> <<"N">>
       [] f = "customerName" -> <<"C">> [] f = "state" -> <<"S">>
       [] f = "taxableValue" -> <<"V">> [] f = "igst" -> <<"I">>
       [] f = "cgst" -> <<"G">> [] f = "sgst" -> <<"H">>
       [] f = "totalAmount" -> <<"A">> [] f = "gstRate" -> <<"R">>
       [] f = "productName" -> <<"P">> [] f = "quantity" -> <<"Q">>]

\* An inter-state sale at 18%: markup characters in every text cell, a
\* quantity that does not divide the taxable value.
RowIgst ==
  << <<"2", "0", "2", "4", "-", "0", "4", "-", "1", "5">>, <<"A", "<", "1", ">">>,
     <<"O", "'", "N", " ", "&", " ", "\"", "C">>, <<"<", "U", "P", ">">>,
     <<"1", "0", "0", "0">>, <<"1", "8", "0">>, <<"0">>, <<>>,
     <<"1", "1", "8", "0">>, <<"1", "8">>, <<"a", ">", "b">>, <<"3">> >>

\* A return: a date before the year 1000, blank texts, SGST without CGST, a
\* negative total, a negative rate, a negative quantity.
RowReturn ==
  << <<"0", "9", "9", "9", "-", "1", "2", "-", "0", "1">>, <<"i", "2">>, <<>>, <<>>,
     <<"5", "0", "0">>, <<"0">>, <<"0">>, <<"9", "0">>,
     <<"-", "5", "2", "5">>, <<"-", "5">>, <<>>, <<"-", "2">> >>

\* An intra-state sale with a date that is no date, amounts with fractions, a
\* rate of 0 and a quantity of 0.
RowSplit ==
  << <<"x">>, <<"i", "3">>, <<"B", "o">>, <<"G", "o", "a">>,
     <<"1", "0", "0", ".", "5">>, <<>>, <<"9", ".", "0", "5">>, <<"9", ".", "0", "5">>,
     <<"1", "1", "8", ".", "6">>, <<"0">>, <<"P">>, <<"0">> >>

\* An intra-state sale at 18% with CGST and no SGST, one-digit month and day
\* fields padded, a fractional quantity.
RowCgst ==
  << <<"2", "0", "2", "4", "-", "1", "1", "-", "0", "5">>, <<"i", "4">>, <<"C", "y">>,
     <<>>, <<"2", "0", "0">>, <<"0">>, <<"1", "8">>, <<"0">>,
     <<"2", "1", "8">>, <<"1", "8">>, <<"&">>, <<"2", ".", "5">> >>

ExportRows == {RowIgst, RowReturn, RowSplit, RowCgst}

\* A report of up to two such rows.
ExportText(rows) ==
  <<JoinComma(ExportHeaders)>> \o [i \in 1..Len(rows) |-> JoinComma(rows[i])]

ExportTexts ==
  {ExportText(rows) :
     rows \in {<<>>} \cup {<<r>> : r \in ExportRows}
                \cup {<<r, q>> : r \in ExportRows, q \in ExportRows}}

\* The ledger cards retyped on the review screen, and the texts typed there:
\* a name with markup characters, blanks only, and nothing.
ExportLedgers ==
  {LedgerName("Sales", 2 * 18 * Scale), LedgerName("Output IGST", 2 * 18 * Scale),
   LedgerName("Output CGST", 18 * Scale), LedgerName("Output SGST", 18 * Scale)}

ExportNames == {<<"M", "<", "y", "&", "'", "\"", ">">>, <<" ", " ">>, EmptyStr}

\* The review screen that processMapping has just opened on such a report.
InitExport ==
  /\ step = "REVIEW"
  /\ uploadedFiles \in {NewFiles(<<text>>) : text \in ExportTexts}
  /\ mapping = SuggestExport
  /\ transactions = BuildAll(mapping, uploadedFiles)
  /\ isProcessing = FALSE
  /\ pendingUploads = <<>>
  /\ pendingSuggest = 0
  /\ ledgerOverrides = NoOverrides
  /\ pm = "built"
  /\ out = NoOutcome

NextExport ==
  \/ \E defaultName \in ExportLedgers : \E customName \in ExportNames :
       handleLedgerOverride(defaultName, customName)
  \/ ExportXml

SpecExport == InitExport /\ [][NextExport]_vars

-----------------------------------------------------------------------------
(* The upload screen alone: files of every shape of line *)

\* The lines of the files: blank, one cell, two cells, three cells with
\* blanks and quotes round them, and a comma alone.
IngestLines ==
  {<<>>, <<"j", "u", "n", "k">>, <<"a", ",", "b">>,
   <<" ", "\"", "x", "\"", " ", ",", "y", ",", "z">>, <<",">>}

\* The files: one to three such lines (a text has one line at least).
IngestTexts ==
  {<<l>> : l \in IngestLines}
    \cup {<<l, m>> : l \in IngestLines, m \in IngestLines}
    \cup {<<l, m, n>> : l \in IngestLines, m \in IngestLines, n \in IngestLines}

\* The upload screen just after the user has picked one file, the handler
\* suspended at `await file.text()`; the batch is empty or holds one report.
InitIngest ==
  /\ step = "UPLOAD"
  /\ uploadedFiles \in {<<>>, NewFiles(<<TextHeaderOnly>>)}
  /\ mapping = BlankMapping
  /\ transactions = <<>>
  /\ isProcessing = TRUE
  /\ pendingUploads \in {<< <<text>> >> : text \in IngestTexts}
  /\ pendingSuggest = 0
  /\ ledgerOverrides = NoOverrides
  /\ pm = "none"
  /\ out = NoOutcome

NextIngest ==
  \/ \E i \in 1..MaxFiles : HandleFileUploadDone(i)
  \/ \E index \in 1..MaxFiles : removeFile(index)

SpecIngest == InitIngest /\ [][NextIngest]_vars

-----------------------------------------------------------------------------
(* Two suggestion calls in flight: the wizard from there on *)

\* The upload screen with two identifyHeaders calls pending: Start Mapping on
\* a report, then a second file picked and read (the file input is never
\* disabled; the end of the read clears isProcessing), then Start Mapping
\* again. The second file is a report without data rows or one with a short
\* row.
InitRace ==
  /\ step = "UPLOAD"
  /\ uploadedFiles \in {NewFiles(<<TextFull>>) \o NewFiles(<<TextHeaderOnly>>),
                        NewFiles(<<TextFull>>) \o NewFiles(<<TextShortRow>>)}
  /\ mapping = BlankMapping
  /\ transactions = <<>>
  /\ isProcessing = TRUE
  /\ pendingUploads = <<>>
  /\ pendingSuggest = 2
  /\ ledgerOverrides = NoOverrides
  /\ pm = "none"
  /\ out = NoOutcome

NextRace ==
  \/ \E aiMapping \in SuggestionPool : SuggestionArrives(aiMapping)
  \/ SuggestionFallback
  \/ SuggestionRejects
  \/ \E key \in EditFields : \E header \in EditHeaders \cup {EmptyStr} :
       SetMappingField(key, header)
  \/ clearMappings
  \/ BackToUpload
  \/ processMapping
  \/ EditMapping
  \/ ExportXml
  \/ StartNewBatch

SpecRace == InitRace /\ [][NextRace]_vars

-----------------------------------------------------------------------------
(* Reading a built batch: which row stands behind which transaction *)

\* 1 as a number of the model.
One == Scale

RECURSIVE RowsBefore(_, _)
RowsBefore(files, i) ==
  IF i <= 1 THEN 0 ELSE RowsBefore(files, i - 1) + Len(files[i - 1].rawData)

RowCount(files) == RowsBefore(files, Len(files) + 1)

\* The (file, row) pairs of the batch.
RowIds(files) ==
  {<<i, j>> \in (1..Len(files)) \X (1..RowCount(files)) : j <= Len(files[i].rawData)}

\* The cell of row <<i, j>> in the first column whose header is h; undefined
\* when the row is too short, "" when no column has that header.
CellUnder(files, id, h) ==
  LET file == files[id[1]]
      cols == {c \in 1..Len(file.headers) : file.headers[c] = h}
  IN  IF cols = {} THEN EmptyStr
      ELSE At(file.rawData[id[2]], CHOOSE c \in cols : \A d \in cols : c <= d)

-----------------------------------------------------------------------------
(* C1 .. C10 *)

\* C1: whenever processMapping has built transactions, the mapping it used
\* maps every REQUIRED field to a non-empty header and no two fields to the
\* same non-empty header.
C1_BuiltFromCompleteMapping ==
  pm = "built" =>
    /\ \A f \in REQUIRED_FIELDS : ~Falsy(MapGet(mapping, f))
    /\ \A f, g \in DOMAIN mapping :
         (f # g /\ ~Falsy(mapping[f])) => mapping[f] # mapping[g]

\* C2: for a mapping that is total over the 12 fields, every REQUIRED field
\* whose value is empty has an entry in the errors of the validation result.
C2_RequiredEmptyHasError ==
  DOMAIN mapping = FieldSet =>
    \A f \in REQUIRED_FIELDS :
      mapping[f] = EmptyStr => f \in DOMAIN Errors(mapping)

C2_Witness ==
  /\ step = "MAPPING"
  /\ DOMAIN mapping = FieldSet
  /\ mapping["quantity"] = EmptyStr
  /\ mapping["date"] # EmptyStr
  /\ "quantity" \in DOMAIN Errors(mapping)
  /\ "date" \notin DOMAIN Errors(mapping)

\* C3: every field that shares its non-empty header with other fields has an
\* error entry, which names exactly those other fields and not the field itself.
C3_DuplicatesNameEachOther ==
  LET errors == Errors(mapping)
  IN  \A f \in DOMAIN mapping :
        LET sharing == {g \in DOMAIN mapping : g # f /\ mapping[g] = mapping[f]}
        IN  (mapping[f] # EmptyStr /\ sharing # {}) =>
              /\ f \in DOMAIN errors
              /\ errors[f].kind = "duplicate"
              /\ errors[f].header = mapping[f]
              /\ Range(errors[f].others) = {Humanize(g) : g \in sharing}
              /\ Len(errors[f].others) = Cardinality(sharing)

C3_Witness ==
  /\ step = "MAPPING"
  /\ mapping["quantity"] = <<"I">>
  /\ mapping["igst"] = <<"I">>
  /\ mapping["sgst"] = <<"I">>
  /\ mapping["state"] = <<"Q">>
  /\ Errors(mapping)["sgst"].others = <<"igst", "quantity">>
  /\ "state" \notin DOMAIN Errors(mapping)

\* C4: once processMapping has run, it has built the transactions and reached
\* REVIEW exactly when the errors of the validation result are empty, whatever
\* the warnings; and a run with an error leaves transactions and step as they
\* were.
C4_BuildsIffNoErrors ==
  /\ [](pm # "none" =>
          (DOMAIN Errors(mapping) = {} <=> (pm = "built" /\ step = "REVIEW")))
  /\ [][pm' = "returned" => (transactions' = transactions /\ step' = step)]_vars

\* C5: a field that is unmapped, or whose header the Source does not have,
\* resolves to the empty string in every row; so a numeric field other than
\* quantity that is unmapped is 0 in every built transaction.
C5_UnmappedResolvesEmpty ==
  pm = "built" =>
    \A id \in RowIds(uploadedFiles) : \A f \in FieldSet :
      LET file == uploadedFiles[id[1]]
          row == file.rawData[id[2]]
          h == MapGet(mapping, f)
      IN  /\ (h = EmptyStr \/ h \notin Range(file.headers)) =>
               getVal(mapping, file, row, f) = EmptyStr
          /\ (h = EmptyStr /\ f \in NUMERIC_FIELDS \ {"quantity"}) =>
               transactions[RowsBefore(uploadedFiles, id[1]) + id[2]][f] = 0

\* C6: with an accepted mapping processMapping completes, whatever the cells:
\* it reaches REVIEW with one transaction for every raw row of every Source.
C6_BuildNeverAborts ==
  (pm # "none" /\ ~hasCriticalErrors(mapping)) =>
    /\ pm = "built"
    /\ step = "REVIEW"
    /\ Len(transactions) = RowCount(uploadedFiles)

\* The transaction built from row <<i, j>> of the batch.
TxOf(id) == transactions[RowsBefore(uploadedFiles, id[1]) + id[2]]

\* The quantity cell of a row: "" when the quantity field is unmapped.
QuantityCell(id) ==
  IF Falsy(MapGet(mapping, "quantity")) THEN EmptyStr
  ELSE CellUnder(uploadedFiles, id, mapping["quantity"])

\* C7: every built transaction has a quantity other than 0, and the quantity
\* is exactly 1 when the quantity field is unmapped or its cell is empty, no
\* number, or parses to 0.
C7_QuantityNeverZero ==
  pm = "built" =>
    \A id \in RowIds(uploadedFiles) :
      LET r == ParseFloat(StripNonNumeric(QuantityCell(id)))
      IN  /\ TxOf(id).quantity # 0
          /\ (QuantityCell(id) = EmptyStr \/ r.nan \/ r.v = 0) =>
               TxOf(id).quantity = One

C7_Witness ==
  /\ pm = "built"
  /\ \E id \in RowIds(uploadedFiles) :
       QuantityCell(id) = <<"0">> /\ TxOf(id).quantity = One
  /\ \E id \in RowIds(uploadedFiles) :
       QuantityCell(id) = <<"2">> /\ TxOf(id).quantity = 2 * One

\* C8, as claimed: a quantity cell that parses to a non-positive number yields
\* quantity 1, so every built transaction has quantity > 0.
C8_QuantityPositive ==
  pm = "built" =>
    \A id \in RowIds(uploadedFiles) :
      LET r == ParseFloat(StripNonNumeric(QuantityCell(id)))
      IN  /\ (~r.nan /\ r.v <= 0) => TxOf(id).quantity = One
          /\ TxOf(id).quantity > 0

\* C8, amended: a quantity cell that parses to 0 yields quantity 1 and one
\* that parses to a negative number keeps that negative number, so a built
\* transaction's quantity is never 0 but may be below 0.
C8_QuantityZeroOnlyDefaults ==
  pm = "built" =>
    \A id \in RowIds(uploadedFiles) :
      LET r == ParseFloat(StripNonNumeric(QuantityCell(id)))
      IN  /\ (~r.nan /\ r.v = 0) => TxOf(id).quantity = One
          /\ (~r.nan /\ r.v < 0) => TxOf(id).quantity = r.v
          /\ TxOf(id).quantity < 0 => (~r.nan /\ r.v < 0)

C8_Witness ==
  /\ pm = "built"
  /\ \E id \in RowIds(uploadedFiles) :
       QuantityCell(id) = <<"-", "2">> /\ TxOf(id).quantity = 0 - 2 * One

\* C9: the built sequence has one transaction per raw row: the Sources' rows
\* in uploadedFiles order, each Source's rows in their own order, so its
\* length is the sum of the row counts and a Source without rows adds nothing.
C9_OneTransactionPerRow ==
  pm = "built" =>
    /\ Len(transactions) = RowCount(uploadedFiles)
    /\ \A id \in RowIds(uploadedFiles) :
         TxOf(id) =
           BuildRow(mapping, uploadedFiles[id[1]], uploadedFiles[id[1]].rawData[id[2]])

C9_Witness ==
  /\ pm = "built"
  /\ Len(uploadedFiles) = 2
  /\ uploadedFiles[1].rawData = <<>>
  /\ Len(uploadedFiles[2].rawData) = 2
  /\ Len(transactions) = 2

\* C10: the ledger list holds, for the distinct gstRate > 0 in ascending
\* order, `Sales @ r%`, then `Output IGST @ r%` iff some transaction of the
\* batch has igst > 0, then `Output CGST @ (r/2)%` and `Output SGST @ (r/2)%`
\* iff some transaction of the batch has cgst > 0 or sgst > 0, and nothing else.
C10_LedgersPerRate ==
  LET ledgers == suggestedLedgers(transactions)
      idx == 1..Len(transactions)
      rates == {r \in {transactions[i].gstRate : i \in idx} : r > 0}
      anyIgst == \E i \in idx : transactions[i].igst > 0
      anySplit == \E i \in idx : transactions[i].cgst > 0 \/ transactions[i].sgst > 0
      per == 1 + (IF anyIgst THEN 1 ELSE 0) + (IF anySplit THEN 2 ELSE 0)
      base(r) == per * Cardinality({x \in rates : x < r})
  IN  /\ Len(ledgers) = per * Cardinality(rates)
      /\ \A r \in rates :
           /\ ledgers[base(r) + 1] =
                [name |-> [prefix |-> "Sales", number |-> 2 * r],
                 type |-> "Sales Ledger", rate |-> r]
           /\ anyIgst =>
                ledgers[base(r) + 2] =
                  [name |-> [prefix |-> "Output IGST", number |-> 2 * r],
                   type |-> "Tax Ledger", rate |-> r]
           /\ anySplit =>
                /\ ledgers[base(r) + per - 1] =
                     [name |-> [prefix |-> "Output CGST", number |-> r],
                      type |-> "Tax Ledger", rate |-> r]
                /\ ledgers[base(r) + per] =
                     [name |-> [prefix |-> "Output SGST", number |-> r],
                      type |-> "Tax Ledger", rate |-> r]

C10_Witness ==
  /\ pm = "built"
  /\ Len(transactions) = 2
  /\ transactions[1].gstRate = 18 * Scale /\ transactions[1].igst > 0
  /\ transactions[2].gstRate = 5 * Scale /\ transactions[2].cgst > 0
  /\ Len(suggestedLedgers(transactions)) = 8
  /\ suggestedLedgers(transactions)[1].name = [prefix |-> "Sales", number |-> 10 * Scale]
  /\ suggestedLedgers(transactions)[4].name =
       [prefix |-> "Output SGST", number |-> 5 * Scale]
  /\ suggestedLedgers(transactions)[5].name = [prefix |-> "Sales", number |-> 36 * Scale]

-----------------------------------------------------------------------------
(* C11 .. C20 *)

\* The last handler was handleDownload: out.xml is the document it saved, made
\* from the transactions and ledgerOverrides of this state.
Exported == out.handler = "handleDownload"

\* The VOUCHER elements of the saved document.
Vouchers == out.xml.ENVELOPE

\* The effective name of the ledger `<prefix> @ <doubled / 2>%`.
Effective(prefix, doubled) == getLedgerName(ledgerOverrides, LedgerName(prefix, doubled))

\* A credit entry without inventory.
Credit(ledger, amount) ==
  [LEDGERNAME |-> ledger, ISDEEMEDPOSITIVE |-> "No", AMOUNT |-> toFixed2(amount, Scale),
   INVENTORYENTRIES |-> <<>>]

\* The entries of voucher i after the party entry and the Sales entry.
TaxPart(i) == SubSeq(Vouchers[i].ENTRIES, 3, Len(Vouchers[i].ENTRIES))

\* C11: in the saved document the voucher of every transaction has, after the
\* party and Sales entries, the IGST credit entry exactly when igst > 0 and
\* the CGST and SGST credit entries exactly when cgst > 0 or sgst > 0.
C11_TaxEntriesIffPositive ==
  Exported =>
    \A i \in 1..Len(transactions) :
      LET tx == transactions[i]
          rate == RateOrDefault(tx.gstRate)
      IN  TaxPart(i) =
            (IF tx.igst > 0
             THEN <<Credit(Effective("Output IGST", 2 * rate), tx.igst)>>
             ELSE <<>>)
            \o (IF tx.cgst > 0 \/ tx.sgst > 0
                THEN <<Credit(Effective("Output CGST", rate), tx.cgst),
                       Credit(Effective("Output SGST", rate), tx.sgst)>>
                ELSE <<>>)

\* C12: in the saved document the ledger names of every voucher are those of
\* the transaction's own gstRate when gstRate > 0 and those of the rate 18
\* when gstRate <= 0.
C12_RateFallsBackWhenNotPositive ==
  Exported =>
    \A i \in 1..Len(transactions) :
      LET tx == transactions[i]
          rate == IF tx.gstRate > 0 THEN tx.gstRate ELSE 18 * Scale
          tax == TaxPart(i)
      IN  /\ Vouchers[i].ENTRIES[2].LEDGERNAME = Effective("Sales", 2 * rate)
          /\ \A k \in 1..Len(tax) :
               tax[k].LEDGERNAME \in
                 {Effective("Output IGST", 2 * rate), Effective("Output CGST", rate),
                  Effective("Output SGST", rate)}

\* The default ledger names of voucher i, in the order of its entries after
\* the party entry: Sales, then IGST and CGST, SGST as the code appends them.
DefaultNames(i) ==
  LET tx == transactions[i]
      rate == RateOrDefault(tx.gstRate)
  IN  <<LedgerName("Sales", 2 * rate)>>
      \o (IF tx.igst > 0 THEN <<LedgerName("Output IGST", 2 * rate)>> ELSE <<>>)
      \o (IF tx.cgst > 0
          THEN <<LedgerName("Output CGST", rate), LedgerName("Output SGST", rate)>>
          ELSE <<>>)

\* A string of white space only.
AllBlank(str) == \A k \in 1..Len(str) : IsSpace(str[k])

\* ledgerOverrides has a usable entry for the default name d.
Overridden(d) ==
  /\ d \in DOMAIN ledgerOverrides
  /\ ledgerOverrides[d] # EmptyStr
  /\ ~AllBlank(ledgerOverrides[d])

\* C13: every ledger name of the saved document is the (escaped) override
\* of its default name d when ledgerOverrides has an entry for d that is
\* neither empty nor all white space, and is d itself otherwise; it depends on
\* no entry of ledgerOverrides other than that of d.
C13_OverrideOnlyItsOwnName ==
  Exported =>
    \A i \in 1..Len(transactions) :
      LET names == DefaultNames(i)
      IN  /\ Len(Vouchers[i].ENTRIES) = 1 + Len(names)
          /\ \A k \in 1..Len(names) :
               Vouchers[i].ENTRIES[k + 1].LEDGERNAME =
                 IF Overridden(names[k])
                 THEN sanitize(ledgerOverrides[names[k]])
                 ELSE LedgerText(names[k])

C13_Witness ==
  /\ Exported
  /\ DOMAIN ledgerOverrides =
       {LedgerName("Sales", 2 * 18 * Scale), LedgerName("Output CGST", 18 * Scale)}
  /\ ledgerOverrides[LedgerName("Sales", 2 * 18 * Scale)] =
       <<"M", "<", "y", "&", "'", "\"", ">">>
  /\ ledgerOverrides[LedgerName("Output CGST", 18 * Scale)] = <<" ", " ">>
  /\ Len(transactions) = 2
  /\ Vouchers[1].ENTRIES[2].LEDGERNAME = sanitize(<<"M", "<", "y", "&", "'", "\"", ">">>)
  /\ Vouchers[1].ENTRIES[3].LEDGERNAME =
       <<"O", "u", "t", "p", "u", "t", " ", "I", "G", "S", "T", " ", "@", " ",
         "1", "8", "%">>
  /\ Vouchers[2].ENTRIES[3].LEDGERNAME =
       <<"O", "u", "t", "p", "u", "t", " ", "C", "G", "S", "T", " ", "@", " ", "9", "%">>

\* The five characters of markup and their entities, as XML defines them.
Markup == {"<", ">", "&", "'", "\""}

EntityOf(c) ==
  CASE c = "<" -> <<"&", "l", "t", ";">>
    [] c = ">" -> <<"&", "g", "t", ";">>
    [] c = "&" -> <<"&", "a", "m", "p", ";">>
    [] c = "'" -> <<"&", "a", "p", "o", "s", ";">>
    [] c = "\"" -> <<"&", "q", "u", "o", "t", ";">>

\* The markup characters whose entity the string starts with (one at most).
Starts(str) ==
  {c \in Markup : Len(str) >= Len(EntityOf(c))
                  /\ SubSeq(str, 1, Len(EntityOf(c))) = EntityOf(c)}

\* Element content in which no markup character is raw: every & begins an
\* entity and the other four do not occur.
RECURSIVE WellEscaped(_)
WellEscaped(str) ==
  IF str = <<>> THEN TRUE
  ELSE IF Starts(str) # {}
  THEN LET c == CHOOSE x \in Starts(str) : TRUE
       IN  WellEscaped(SubSeq(str, Len(EntityOf(c)) + 1, Len(str)))
  ELSE str[1] \notin Markup /\ WellEscaped(Tail(str))

\* What an XML parser reads from well-escaped element content.
RECURSIVE Unescape(_)
Unescape(str) ==
  IF str = <<>> THEN <<>>
  ELSE IF Starts(str) # {}
  THEN LET c == CHOOSE x \in Starts(str) : TRUE
       IN  <<c>> \o Unescape(SubSeq(str, Len(EntityOf(c)) + 1, Len(str)))
  ELSE <<str[1]>> \o Unescape(Tail(str))

\* The content is that of the data string: no markup character is raw in it,
\* and unescaped it is the data string, character for character.
Carries(content, data) == WellEscaped(content) /\ Unescape(content) = data

\* "" for undefined.
Text(str) == IF str = Undefined THEN EmptyStr ELSE str

\* C14: in the saved document the invoice number, party name, state, product
\* name and every ledger name (default or override) carry their data string
\* with each of < > & ' " replaced by its entity and every other character
\* unchanged, so that none of the five is raw in element content.
C14_DataIsEscaped ==
  Exported =>
    \A i \in 1..Len(transactions) :
      LET tx == transactions[i]
          v == Vouchers[i]
          names == DefaultNames(i)
      IN  /\ Carries(v.REFERENCE, Text(tx.invoiceNo))
          /\ Carries(v.PARTYLEDGERNAME, OrElse(tx.customerName, Cash))
          /\ Carries(v.ENTRIES[1].LEDGERNAME, OrElse(tx.customerName, Cash))
          /\ Carries(v.STATENAME, OrElse(tx.state, Maharashtra))
          /\ Carries(v.ENTRIES[2].INVENTORYENTRIES[1].STOCKITEMNAME,
                     OrElse(tx.productName, GeneralItem))
          /\ \A k \in 1..Len(names) :
               Carries(v.ENTRIES[k + 1].LEDGERNAME,
                       IF Overridden(names[k]) THEN ledgerOverrides[names[k]]
                       ELSE LedgerText(names[k]))

C14_Witness ==
  /\ Exported
  /\ Len(transactions) >= 1
  /\ transactions[1].invoiceNo = <<"A", "<", "1", ">">>
  /\ Vouchers[1].REFERENCE = <<"A", "&", "l", "t", ";", "1", "&", "g", "t", ";">>
  /\ transactions[1].customerName = <<"O", "'", "N", " ", "&", " ", "\"", "C">>
  /\ Vouchers[1].PARTYLEDGERNAME =
       <<"O", "&", "a", "p", "o", "s", ";", "N", " ", "&", "a", "m", "p", ";", " ",
         "&", "q", "u", "o", "t", ";", "C">>
  /\ Overridden(LedgerName("Output IGST", 2 * 18 * Scale))
  /\ Vouchers[1].ENTRIES[3].LEDGERNAME =
       <<"M", "&", "l", "t", ";", "y", "&", "a", "m", "p", ";", "&", "a", "p", "o", "s", ";",
         "&", "q", "u", "o", "t", ";", "&", "g", "t", ";">>

\* C15: in the saved document every DATE is 8 digits: the four digits of the
\* year, the two of the month and the two of the day when the transaction's
\* date string parses, and 20240401 when it does not.
C15_DateIsEightDigits ==
  Exported =>
    \A i \in 1..Len(transactions) :
      LET dateStr == Text(transactions[i].date)
          date == Vouchers[i].DATE
      IN  /\ Len(date) = 8
          /\ \A k \in 1..Len(date) : date[k] \in Digits
          /\ date = IF DateParses(dateStr)
                    THEN SubSeq(dateStr, 1, 4) \o SubSeq(dateStr, 6, 7)
                           \o SubSeq(dateStr, 9, 10)
                    ELSE <<"2", "0", "2", "4", "0", "4", "0", "1">>

\* The string is a decimal number, [-]digits[.digits], of that value.
IsNumber(str, value) ==
  LET r == ParseFloat(str)
  IN  ~r.nan /\ r.end = Len(str) + 1 /\ r.v = value

\* C16: in the saved document the party entry's amount is the number
\* -totalAmount (one minus sign before the magnitude), the Sales entry's and
\* the inventory entry's amount is taxableValue, the inventory rate is
\* taxableValue / quantity to two decimals, and both quantities are the
\* transaction's quantity.
C16_AmountsOfVoucher ==
  Exported =>
    \A i \in 1..Len(transactions) :
      LET tx == transactions[i]
          party == Vouchers[i].ENTRIES[1]
          sales == Vouchers[i].ENTRIES[2]
          inventory == sales.INVENTORYENTRIES[1]
          rate == ParseFloat(inventory.RATE)
      IN  /\ IsNumber(party.AMOUNT, 0 - tx.totalAmount)
          /\ IsNumber(sales.AMOUNT, tx.taxableValue)
          /\ IsNumber(inventory.AMOUNT, tx.taxableValue)
          /\ ~rate.nan /\ rate.end = Len(inventory.RATE) + 1
          /\ 2 * Abs(rate.v * tx.quantity - Scale * tx.taxableValue) <= Abs(tx.quantity)
          /\ inventory.ACTUALQTY = NumberToString(tx.quantity, Scale) \o Nos
          /\ inventory.BILLEDQTY = inventory.ACTUALQTY

\* C17: the saved document is one envelope with exactly one VOUCHER for each
\* transaction, in the order of the transactions; for no transactions it is
\* the envelope without a voucher.
C17_OneVoucherPerTransaction ==
  Exported =>
    /\ DOMAIN out.xml = {"ENVELOPE"}
    /\ Len(Vouchers) = Len(transactions)
    /\ transactions = <<>> => Vouchers = <<>>
    /\ \A i \in 1..Len(transactions) :
         /\ Vouchers[i] = Voucher(transactions[i], ledgerOverrides)
         /\ Carries(Vouchers[i].REFERENCE, Text(transactions[i].invoiceNo))

C17_Witness ==
  /\ Exported
  /\ Len(transactions) = 2
  /\ transactions[1].invoiceNo = <<"i", "4">>
  /\ transactions[2].invoiceNo = <<"i", "2">>
  /\ Len(Vouchers) = 2
  /\ Vouchers[1].REFERENCE = <<"i", "4">>
  /\ Vouchers[2].REFERENCE = <<"i", "2">>

\* The last handler was handleFileUpload, on one file: out.texts[1] is the
\* text it read and out.before the number of Sources the batch held.
Ingested == out.handler = "handleFileUpload" /\ Len(out.texts) = 1

\* The cells that splitting a line on comma gives: one more than its commas.
CellCount(line) == 1 + Cardinality({k \in 1..Len(line) : line[k] = ","})

\* The lines of a text that split into two or more cells, in their order.
UsableLines(text) == SelectSeq(text, LAMBDA line : CellCount(line) >= 2)

\* The Sources that the ingested file added to the batch.
Added == SubSeq(uploadedFiles, out.before + 1, Len(uploadedFiles))

C19_UsableLinesInOrder ==
  Ingested =>
    LET kept == UsableLines(out.texts[1])
    IN  kept # <<>> =>
          /\ Len(Added) = 1
          /\ Added[1].headers = ParseLine(kept[1])
          /\ Added[1].rawData = [k \in 1..(Len(kept) - 1) |-> ParseLine(kept[k + 1])]
          /\ \A k \in 1..Len(kept) : Len(ParseLine(kept[k])) = CellCount(kept[k])

C19_Witness ==
  /\ Ingested
  /\ out.texts[1] =
       << <<"a", ",", "b">>, <<"j", "u", "n", "k">>,
          <<" ", "\"", "x", "\"", " ", ",", "y", ",", "z">> >>
  /\ Added = <<[headers |-> << <<"a">>, <<"b">> >>,
               rawData |-> << << <<"x">>, <<"y">>, <<"z">> >> >>]>>

\* C20: whenever the suggestion call that startMapping started has failed,
\* by identifyHeaders catching an error or by its promise rejecting, the
\* mapping is afterwards the blank mapping: all 12 fields present and empty.
C20_FailureLeavesBlankMapping ==
  (out.handler = "startMapping" /\ out.how \in {"fallback", "rejected"}) =>
    /\ DOMAIN mapping = FieldSet
    /\ \A f \in FieldSet : mapping[f] = EmptyStr

-----------------------------------------------------------------------------
(* C21 .. C25 *)

C22_TransactionsMatchSources ==
  step \in {"REVIEW", "EXPORT"} => transactions = BuildAll(mapping, uploadedFiles)

\* C23: once the mapping screen has opened, the completion of a suggestion
\* call, resolved or failed, changes neither mapping nor step: on the
\* mapping, review and export screens they change by user actions only.
C23_CompletionLeavesMappingAndStep ==
  [][(pendingSuggest' < pendingSuggest /\ step # "UPLOAD") =>
       (mapping' = mapping /\ step' = step)]_vars

\* C24: isProcessing is true in every state in which a file read or a
\* suggestion call is pending, and no more than one suggestion call is
\* pending.
C24_ProcessingWhilePending ==
  /\ (pendingUploads # <<>> \/ pendingSuggest > 0) => isProcessing
  /\ pendingSuggest <= 1

\* C25: every default ledger name that a voucher of the saved document posts
\* a sales or tax entry to is the name of one of the ledgers that
\* suggestedLedgers lists for the transactions, so that the review screen
\* shows a card for it.
C25_PostedLedgersAreSuggested ==
  Exported =>
    \A i \in 1..Len(transactions) :
      Range(DefaultNames(i)) \subseteq
        {suggestedLedgers(transactions)[k].name :
           k \in 1..Len(suggestedLedgers(transactions))}

=============================================================================
